---- MODULE Spec2Model ----
(***************************************************************************)
(* Concert Finder (src/app.py): the event aggregation / ranking pipeline.  *)
(*                                                                         *)
(* Four components are modelled, each with its own specification:          *)
(*   Spec        search_ticketmaster_events   (lines 89-166)               *)
(*   SpecExpand  similar-artist expansion     (lines 18-40, 322-339)       *)
(*   SpecRank    ranking step                 (lines 43-70, 360-369)       *)
(*   SpecExtract extract_artist_from_event    (lines 73-86)                *)
(*                                                                         *)
(* Python strings whose characters matter (names, search terms) are        *)
(* sequences of one-character strings; date-time strings are sequences of  *)
(* digits compared lexicographically, as Python compares str.              *)
(***************************************************************************)
EXTENDS Integers, Sequences, FiniteSets, TLC

VARIABLES
    \* ---- search_ticketmaster_events
    api_key,              \* TICKETMASTER_API_KEY is configured
    exclude_large_venues, \* the flag argument
    search_terms,         \* artists + genres
    ti,                   \* index of the term the for loop is at
    all_events,           \* list being built
    seen_event_ids,       \* set of identifiers already kept
    responses,            \* what the event API answered, one entry per request
    warnings,             \* st.warning calls, the term of each
    errors,               \* st.error calls
    result,               \* the returned list
    pc,                   \* position in search_ticketmaster_events
    \* ---- similar-artist expansion
    lastfm_key,           \* LASTFM_API_KEY is configured
    include_similar,      \* the checkbox
    artists,              \* the user-entered artists
    all_artists,          \* working artist list
    similar_artist_map,   \* seed -> related names appended for it
    ai,                   \* index of the seed the for loop is at
    similar_log,          \* what get_similar_artists_lastfm met, one entry per call
    similar_ret,          \* what each call returned
    escaped,              \* an exception left get_similar_artists_lastfm
    key_warning,          \* the "Last.fm API key not configured" warning was shown
    epc,                  \* position in the expansion
    \* ---- ranking step
    events,               \* the search result being ranked
    events0,              \* the search result as it was returned
    sort_by,              \* "Popularity" or "Date"
    lastfm,               \* what artist.getinfo answers for each artist
    cache,                \* st.cache_data of get_artist_popularity
    cache0,               \* the cache when ranking began
    ri,                   \* index of the event the annotation loop is at
    rpc,                  \* position in the ranking step
    \* ---- extract_artist_from_event
    event,                \* the argument
    extracted,            \* the returned name
    xpc                   \* "call" before, "done" after

searchVars  == <<api_key, exclude_large_venues, search_terms, ti, all_events,
                 seen_event_ids, responses, warnings, errors, result, pc>>
expandVars  == <<lastfm_key, include_similar, artists, all_artists,
                 similar_artist_map, ai, similar_log, similar_ret, escaped,
                 key_warning, epc>>
rankVars    == <<events, events0, sort_by, lastfm, cache, cache0, ri, rpc>>
extractVars == <<event, extracted, xpc>>
vars == <<searchVars, expandVars, rankVars, extractVars>>

-----------------------------------------------------------------------------
(* Bounds *)

\* events the event API delivers in one search, over all terms
MaxEvents == 3
\* user-entered artists in the expansion
MaxArtists == 2
\* events in the list handed to the ranking step
MaxRanked == 3
\* pieces (suffixes or other words) that follow the base of an event name
MaxPieces == 2

-----------------------------------------------------------------------------
(* Python built-ins *)

Range(s) == {s[i] : i \in 1..Len(s)}

SeqsUpTo(S, n) == UNION {[1..k -> S] : k \in 0..n}

\* str.isspace on one character
IsSpace(c) == c \in {" ", "\t"}

RECURSIVE LStrip(_)
LStrip(s) == IF s # <<>> /\ IsSpace(Head(s)) THEN LStrip(Tail(s)) ELSE s

RECURSIVE RStrip(_)
RStrip(s) ==
    IF s # <<>> /\ IsSpace(s[Len(s)]) THEN RStrip(SubSeq(s, 1, Len(s) - 1)) ELSE s

\* str.strip()
Strip(s) == RStrip(LStrip(s))

\* str.find(sub) + 1: the 1-based index of the first occurrence, 0 when none
Find(s, sub) ==
    LET hits == {i \in 1..(Len(s) - Len(sub) + 1) : SubSeq(s, i, i + Len(sub) - 1) = sub}
    IN  IF hits = {} THEN 0 ELSE CHOOSE i \in hits : \A j \in hits : i <= j

\* sub in s
Contains(s, sub) == Find(s, sub) # 0

\* s.split(sep)[0]
SplitFirst(s, sep) == IF Contains(s, sep) THEN SubSeq(s, 1, Find(s, sep) - 1) ELSE s

\* str <= str: lexicographic, on sequences of character codes
RECURSIVE StrLeq(_, _)
StrLeq(a, b) ==
    IF a = <<>> THEN TRUE
    ELSE IF b = <<>> THEN FALSE
    ELSE IF Head(a) # Head(b) THEN Head(a) < Head(b)
    ELSE StrLeq(Tail(a), Tail(b))

StrLess(a, b) == StrLeq(a, b) /\ a # b

-----------------------------------------------------------------------------
(* The event API's records *)

VENUE_SIZE_THRESHOLD == 10000

\* a capacity field of a venue: absent, a JSON number, a string of digits,
\* or a string that is no number
NoCap      == [kind |-> "absent", val |-> 0]
IntCap(n)  == [kind |-> "int", val |-> n]
DigitsCap(n) == [kind |-> "digits", val |-> n]
TextCap    == [kind |-> "text", val |-> 0]

Venue(g, b) == [generalInfo |-> g, boxOfficeInfo |-> b]

Event(i, v, d) == [id |-> i, venues |-> v, dateTime |-> d]

\* the records the event API may deliver: three identifiers, each with
\* several records that differ in venue and date; <<>> as dateTime is a record
\* without one (the sort key defaults to "")
EventUniverse ==
    { Event("e1", <<Venue(IntCap(10001), NoCap)>>,        <<1>>),
      Event("e1", <<>>,                                   <<>>),
      Event("e1", <<Venue(IntCap(10000), NoCap)>>,        <<1, 2>>),
      Event("e2", <<Venue(NoCap, DigitsCap(10001))>>,     <<2>>),
      Event("e2", <<Venue(NoCap, NoCap)>>,                <<1>>),
      Event("e2", <<Venue(NoCap, IntCap(10000))>>,        <<2>>),
      Event("e3", <<Venue(TextCap, IntCap(10001))>>,      <<1>>),
      Event("e3", <<Venue(IntCap(0), IntCap(10001))>>,    <<1, 2>>),
      Event("e3", <<Venue(IntCap(20000), IntCap(5000))>>, <<>>),
      Event("e3", <<Venue(IntCap(5000), IntCap(20000))>>, <<2>>) }

\* e.get("dates", {}).get("start", {}).get("dateTime", "")
DateKey(e) == e.dateTime

\* Faulty variant of SortByDate: the list is returned as built.
SortByDate_Unsorted(s) == s

\* list.sort(key=dateTime), line 164: stable, so x, the last element, goes
\* after every element whose key is not greater
RECURSIVE InsertByDate(_, _)
InsertByDate(x, s) ==
    IF s = <<>> THEN <<x>>
    ELSE IF StrLess(DateKey(x), DateKey(Head(s))) THEN <<x>> \o s
    ELSE <<Head(s)>> \o InsertByDate(x, Tail(s))

RECURSIVE SortByDate(_)
SortByDate(s) ==
    IF s = <<>> THEN <<>>
    ELSE InsertByDate(s[Len(s)], SortByDate(SubSeq(s, 1, Len(s) - 1)))

\* bool(value) of a capacity field
Truthy(c) == \/ c.kind = "int" /\ c.val # 0
             \/ c.kind \in {"digits", "text"}

\* the capacity the venue check settles on (lines 140-148); NoCap is None
Capacity(venue) ==
    LET first == IF Truthy(venue.generalInfo) THEN venue.generalInfo ELSE NoCap
    IN  IF ~Truthy(first) /\ Truthy(venue.boxOfficeInfo)
        THEN venue.boxOfficeInfo
        ELSE first

\* Faulty variant of OverThreshold: >= in place of >.
OverThreshold_Inclusive(c) ==
    /\ Truthy(c)
    /\ c.kind \in {"int", "digits"}
    /\ c.val >= VENUE_SIZE_THRESHOLD

\* lines 150-155: int(capacity) > VENUE_SIZE_THRESHOLD; int() of a string that
\* is no number raises ValueError, which is passed over
OverThreshold(c) ==
    /\ Truthy(c)
    /\ c.kind \in {"int", "digits"}
    /\ c.val > VENUE_SIZE_THRESHOLD

\* lines 135-155: the venue check makes the loop `continue`
SkippedAsLarge(e, exclude) ==
    /\ exclude
    /\ e.venues # <<>>
    /\ OverThreshold(Capacity(e.venues[1]))

-----------------------------------------------------------------------------
(* search_ticketmaster_events *)

notSearch == <<expandVars, rankVars, extractVars>>

Blank == <<" ">>
TermA == <<"j", "a", "z", "z">>
TermB == <<" ", "U", "2">>

ArtistArgs == {<<>>, <<TermA, Blank>>}
GenreArgs  == {<<>>, <<TermB>>}

KeyErrorMessage == "Ticketmaster API key not configured"

RECURSIVE Flatten(_)
Flatten(rs) ==
    IF rs = <<>> THEN <<>> ELSE Head(rs).events \o Flatten(Tail(rs))

\* every event the API delivered, in term order then response order
Delivered == Flatten(responses)

InitSearch ==
    /\ api_key \in BOOLEAN
    /\ exclude_large_venues \in BOOLEAN
    /\ search_terms \in {a \o g : a \in ArtistArgs, g \in GenreArgs}
    /\ ti = 1
    /\ all_events = <<>>
    /\ seen_event_ids = {}
    /\ responses = <<>>
    /\ warnings = <<>>
    /\ errors = <<>>
    /\ result = <<>>
    /\ pc = "start"

IdleSearch ==
    /\ api_key = FALSE
    /\ exclude_large_venues = FALSE
    /\ search_terms = <<>>
    /\ ti = 1
    /\ all_events = <<>>
    /\ seen_event_ids = {}
    /\ responses = <<>>
    /\ warnings = <<>>
    /\ errors = <<>>
    /\ result = <<>>
    /\ pc = "idle"

\* Faulty variant of NoApiKey: the error is reported but the search goes on.
NoApiKey_Continues ==
    /\ pc = "start"
    /\ ~api_key
    /\ errors' = Append(errors, KeyErrorMessage)
    /\ pc' = "loop"
    /\ UNCHANGED <<api_key, exclude_large_venues, search_terms, ti, all_events,
                   seen_event_ids, responses, warnings, result>>
    /\ UNCHANGED notSearch

\* lines 91-94
NoApiKey ==
    /\ pc = "start"
    /\ ~api_key
    /\ errors' = Append(errors, KeyErrorMessage)
    /\ result' = <<>>
    /\ pc' = "done"
    /\ UNCHANGED <<api_key, exclude_large_venues, search_terms, ti, all_events,
                   seen_event_ids, responses, warnings>>
    /\ UNCHANGED notSearch

\* lines 96-100
BeginSearch ==
    /\ pc = "start"
    /\ api_key
    /\ all_events' = <<>>
    /\ seen_event_ids' = {}
    /\ pc' = "loop"
    /\ UNCHANGED <<api_key, exclude_large_venues, search_terms, ti, responses,
                   warnings, errors, result>>
    /\ UNCHANGED notSearch

\* lines 102-104
SkipBlankTerm ==
    /\ pc = "loop"
    /\ ti <= Len(search_terms)
    /\ Strip(search_terms[ti]) = <<>>
    /\ ti' = ti + 1
    /\ UNCHANGED <<api_key, exclude_large_venues, search_terms, all_events,
                   seen_event_ids, responses, warnings, errors, result, pc>>
    /\ UNCHANGED notSearch

Logged(outcome) ==
    Append(responses, [term |-> ti, outcome |-> outcome, events |-> <<>>])

\* lines 119-127: the request answered 200 with a body; its events follow
RequestOk ==
    /\ pc = "loop"
    /\ ti <= Len(search_terms)
    /\ Strip(search_terms[ti]) # <<>>
    /\ responses' = Logged("ok")
    /\ pc' = "events"
    /\ UNCHANGED <<api_key, exclude_large_venues, search_terms, ti, all_events,
                   seen_event_ids, warnings, errors, result>>
    /\ UNCHANGED notSearch

\* line 125: a status other than 200: nothing is done for the term
RequestNot200 ==
    /\ pc = "loop"
    /\ ti <= Len(search_terms)
    /\ Strip(search_terms[ti]) # <<>>
    /\ responses' = Logged("status")
    /\ ti' = ti + 1
    /\ UNCHANGED <<api_key, exclude_large_venues, search_terms, all_events,
                   seen_event_ids, warnings, errors, result, pc>>
    /\ UNCHANGED notSearch

\* Faulty variant of RequestFailed: the exception ends the search.
RequestFailed_Aborts ==
    /\ pc = "loop"
    /\ ti <= Len(search_terms)
    /\ Strip(search_terms[ti]) # <<>>
    /\ responses' = Logged("error")
    /\ warnings' = Append(warnings, [at |-> ti, term |-> search_terms[ti]])
    /\ pc' = "done"
    /\ UNCHANGED <<api_key, exclude_large_venues, search_terms, ti, all_events,
                   seen_event_ids, errors, result>>
    /\ UNCHANGED notSearch

\* lines 160-161: requests.get raised a RequestException
RequestFailed ==
    /\ pc = "loop"
    /\ ti <= Len(search_terms)
    /\ Strip(search_terms[ti]) # <<>>
    /\ responses' = Logged("error")
    /\ warnings' = Append(warnings, [at |-> ti, term |-> search_terms[ti]])
    /\ ti' = ti + 1
    /\ UNCHANGED <<api_key, exclude_large_venues, search_terms, all_events,
                   seen_event_ids, errors, result, pc>>
    /\ UNCHANGED notSearch

\* Faulty variant of Keeps: the seen-identifier test is left out.
Keeps_IgnoringSeen(e, seen, exclude) == ~SkippedAsLarge(e, exclude)

\* lines 130-158: the event is appended and its identifier recorded
Keeps(e, seen, exclude) ==
    /\ e.id \notin seen
    /\ ~SkippedAsLarge(e, exclude)

\* lines 129-158: one iteration of the loop over the response's events
ProcessEvent(e) ==
    /\ pc = "events"
    /\ Len(Delivered) < MaxEvents
    /\ responses' = [responses EXCEPT ![Len(responses)].events = Append(@, e)]
    /\ IF Keeps(e, seen_event_ids, exclude_large_venues)
       THEN /\ seen_event_ids' = seen_event_ids \cup {e.id}
            /\ all_events' = Append(all_events, e)
       ELSE UNCHANGED <<seen_event_ids, all_events>>
    /\ UNCHANGED <<api_key, exclude_large_venues, search_terms, ti, warnings,
                   errors, result, pc>>
    /\ UNCHANGED notSearch

\* line 129: the response's events are exhausted
EndOfEvents ==
    /\ pc = "events"
    /\ ti' = ti + 1
    /\ pc' = "loop"
    /\ UNCHANGED <<api_key, exclude_large_venues, search_terms, all_events,
                   seen_event_ids, responses, warnings, errors, result>>
    /\ UNCHANGED notSearch

\* lines 163-166: all_events.sort(...) in place, then returned
SortAndReturn ==
    /\ pc = "loop"
    /\ ti > Len(search_terms)
    /\ all_events' = SortByDate(all_events)
    /\ result' = all_events'
    /\ pc' = "done"
    /\ UNCHANGED <<api_key, exclude_large_venues, search_terms, ti,
                   seen_event_ids, responses, warnings, errors>>
    /\ UNCHANGED notSearch

-----------------------------------------------------------------------------
(* Similar-artist expansion: get_similar_artists_lastfm and lines 322-339 *)

notExpand == <<searchVars, rankVars, extractVars>>

\* str.lower() on one character
LowerChar(c) ==
    CASE c = "A" -> "a"
      [] c = "B" -> "b"
      [] c = "C" -> "c"
      [] c = "D" -> "d"
      [] OTHER -> c

\* str.lower()
Lower(s) == [i \in 1..Len(s) |-> LowerChar(s[i])]

\* artist names: the first two differ only in case
NameAb == <<"A", "b">>
NameaB == <<"a", "B">>
NameCd == <<"C", "d">>
ArtistNames == {NameAb, NameaB, NameCd}

\* an element of similarartists.artist: with a "name", or without one
Named(n) == [has_name |-> TRUE, name |-> n]
Unnamed  == [has_name |-> FALSE, name |-> <<>>]

\* what a call of get_similar_artists_lastfm can meet:
\*   "raise"    requests.get raises (no connection, timeout)
\*   "status"   an answer with a status other than 200
\*   "badjson"  status 200 with a body response.json() cannot parse
\*   "nofield"  status 200, JSON without similarartists.artist
\*   "list"     status 200, similarartists.artist is the list `similar`
SimilarOutcomes ==
    { [kind |-> k, similar |-> <<>>] : k \in {"raise", "status", "badjson", "nofield"} }
    \cup { [kind |-> "list", similar |-> l] :
             l \in SeqsUpTo({Named(n) : n \in ArtistNames} \cup {Unnamed}, 2) }

Returns(v) == [raised |-> FALSE, value |-> v]
Raises     == [raised |-> TRUE, value |-> <<>>]

\* lines 18-40; the limit is forwarded to the API and not applied to its answer
get_similar_artists_lastfm(key, outcome) ==
    IF ~key THEN Returns(<<>>)
    ELSE IF outcome.kind = "raise" THEN Raises
    ELSE IF outcome.kind = "status" THEN Returns(<<>>)
    ELSE IF outcome.kind = "badjson" THEN Raises
    ELSE IF outcome.kind = "nofield" THEN Returns(<<>>)
    ELSE IF \E i \in 1..Len(outcome.similar) : ~outcome.similar[i].has_name
         THEN Raises  \* a["name"]: KeyError
         ELSE Returns([i \in 1..Len(outcome.similar) |-> outcome.similar[i].name])

\* lines 335-337
Recorded(map, seed, n) ==
    IF seed \in DOMAIN map
    THEN [map EXCEPT ![seed] = Append(@, n)]
    ELSE [s \in DOMAIN map \cup {seed} |-> IF s = seed THEN <<n>> ELSE map[s]]

\* Faulty variant of IsListed: the comparison is case-sensitive.
IsListed_CaseSensitive(n, all) == n \in Range(all)

\* line 333: related_name.lower() in [a.lower() for a in all_artists]
IsListed(n, all) == Lower(n) \in {Lower(a) : a \in Range(all)}

\* lines 332-337: the loop over the related names of one seed
RECURSIVE AppendRelated(_, _, _, _)
AppendRelated(all, map, seed, related) ==
    IF related = <<>> THEN [all |-> all, map |-> map]
    ELSE IF ~IsListed(Head(related), all)
         THEN AppendRelated(Append(all, Head(related)),
                            Recorded(map, seed, Head(related)), seed, Tail(related))
         ELSE AppendRelated(all, map, seed, Tail(related))

\* lines 312, 323-324: the parsed artists are stripped and non-empty
InitExpand ==
    /\ lastfm_key \in BOOLEAN
    /\ include_similar \in BOOLEAN
    /\ artists \in SeqsUpTo(ArtistNames, MaxArtists)
    /\ all_artists = artists
    /\ similar_artist_map = <<>>
    /\ ai = 1
    /\ similar_log = <<>>
    /\ similar_ret = <<>>
    /\ escaped = FALSE
    /\ key_warning = FALSE
    /\ epc = "start"

\* line 326: the expansion is off or there is no artist
SkipExpansion ==
    /\ epc = "start"
    /\ ~(include_similar /\ artists # <<>>)
    /\ epc' = "done"
    /\ UNCHANGED <<lastfm_key, include_similar, artists, all_artists,
                   similar_artist_map, ai, similar_log, similar_ret, escaped,
                   key_warning>>
    /\ UNCHANGED notExpand

\* lines 338-339
ExpansionWithoutKey ==
    /\ epc = "start"
    /\ include_similar /\ artists # <<>>
    /\ ~lastfm_key
    /\ key_warning' = TRUE
    /\ epc' = "done"
    /\ UNCHANGED <<lastfm_key, include_similar, artists, all_artists,
                   similar_artist_map, ai, similar_log, similar_ret, escaped>>
    /\ UNCHANGED notExpand

\* lines 326-330
BeginExpansion ==
    /\ epc = "start"
    /\ include_similar /\ artists # <<>>
    /\ lastfm_key
    /\ epc' = "loop"
    /\ UNCHANGED <<lastfm_key, include_similar, artists, all_artists,
                   similar_artist_map, ai, similar_log, similar_ret, escaped,
                   key_warning>>
    /\ UNCHANGED notExpand

\* lines 330-337: one seed, when get_similar_artists_lastfm returns
ExpandSeed(outcome) ==
    /\ epc = "loop"
    /\ ai <= Len(artists)
    /\ LET ret == get_similar_artists_lastfm(lastfm_key, outcome)
           new == AppendRelated(all_artists, similar_artist_map, artists[ai], ret.value)
       IN  /\ ~ret.raised
           /\ similar_ret' = Append(similar_ret, ret.value)
           /\ all_artists' = new.all
           /\ similar_artist_map' = new.map
    /\ similar_log' = Append(similar_log, outcome)
    /\ ai' = ai + 1
    /\ UNCHANGED <<lastfm_key, include_similar, artists, escaped, key_warning, epc>>
    /\ UNCHANGED notExpand

\* line 331: the exception raised inside get_similar_artists_lastfm is caught
\* nowhere; it leaves the function and ends the script run
SeedLookupRaises(outcome) ==
    /\ epc = "loop"
    /\ ai <= Len(artists)
    /\ get_similar_artists_lastfm(lastfm_key, outcome).raised
    /\ similar_log' = Append(similar_log, outcome)
    /\ escaped' = TRUE
    /\ epc' = "crashed"
    /\ UNCHANGED <<lastfm_key, include_similar, artists, all_artists,
                   similar_artist_map, ai, similar_ret, key_warning>>
    /\ UNCHANGED notExpand

\* line 330: the seeds are exhausted
EndExpansion ==
    /\ epc = "loop"
    /\ ai > Len(artists)
    /\ epc' = "done"
    /\ UNCHANGED <<lastfm_key, include_similar, artists, all_artists,
                   similar_artist_map, ai, similar_log, similar_ret, escaped,
                   key_warning>>
    /\ UNCHANGED notExpand

-----------------------------------------------------------------------------
(* extract_artist_from_event, lines 73-86 *)

notExtract == <<searchVars, expandVars, rankVars>>

\* line 83, in the order of the list
SUFFIXES ==
    << <<" ", "T", "o", "u", "r">>,
       <<" ", "L", "i", "v", "e">>,
       <<" ", "C", "o", "n", "c", "e", "r", "t">>,
       <<" ", "S", "h", "o", "w">>,
       <<" ", "P", "r", "e", "s", "e", "n", "t", "s">>,
       <<" ", "W", "o", "r", "l", "d", " ", "T", "o", "u", "r">> >>

\* Faulty variant of StripSuffixes: the loop stops after the first suffix found.
RECURSIVE StripSuffixes_FirstOnly(_, _)
StripSuffixes_FirstOnly(name, i) ==
    IF i > Len(SUFFIXES) THEN name
    ELSE IF Contains(name, SUFFIXES[i]) THEN SplitFirst(name, SUFFIXES[i])
    ELSE StripSuffixes_FirstOnly(name, i + 1)

\* lines 83-85: the loop from suffix i on; every suffix found truncates the name
RECURSIVE StripSuffixes(_, _)
StripSuffixes(name, i) ==
    IF i > Len(SUFFIXES) THEN name
    ELSE IF Contains(name, SUFFIXES[i])
         THEN StripSuffixes(SplitFirst(name, SUFFIXES[i]), i + 1)
         ELSE StripSuffixes(name, i + 1)

\* lines 73-86; an attraction without "name" gives ""
extract_artist_from_event(e) ==
    IF e.attractions # <<>>
    THEN IF e.attractions[1].has_name THEN e.attractions[1].name ELSE <<>>
    ELSE Strip(StripSuffixes(e.name, 1))

Radiohead == <<"R", "a", "d", "i", "o", "h", "e", "a", "d">>
Muse      == <<"M", "u", "s", "e">>
Bjork     == <<"B", "j", "o", "r", "k">>

\* artist names, none containing a suffix of the list
BaseNames == {Radiohead, Muse}

\* what may follow the artist in an event name: a suffix of the list, another
\* word, a space
Pieces == Range(SUFFIXES) \cup {<<" ", "F", "e", "s", "t">>, <<" ">>}

RECURSIVE Concat(_)
Concat(ss) == IF ss = <<>> THEN <<>> ELSE Head(ss) \o Concat(Tail(ss))

EventNames == {b \o Concat(ps) : b \in BaseNames, ps \in SeqsUpTo(Pieces, MaxPieces)}

ExtractInputs ==
    { [name |-> n, attractions |-> a] :
        n \in EventNames, a \in {<<>>, <<Named(Bjork)>>, <<Unnamed>>} }

InitExtract ==
    /\ event \in ExtractInputs
    /\ extracted = <<>>
    /\ xpc = "call"

\* lines 73-86
CallExtract ==
    /\ xpc = "call"
    /\ extracted' = extract_artist_from_event(event)
    /\ xpc' = "done"
    /\ UNCHANGED event
    /\ UNCHANGED notExtract

-----------------------------------------------------------------------------
(* Ranking step: get_artist_popularity and lines 360-369 *)

\* the expansion is at rest while ranking runs; lastfm_key is read
notRank == <<searchVars, extractVars, include_similar, artists, all_artists,
             similar_artist_map, ai, similar_log, similar_ret, escaped,
             key_warning, epc>>

\* what artist.getinfo can answer for an artist:
\*   "raise"    requests.get raises
\*   "status"   an answer with a status other than 200
\*   "badjson"  status 200 with a body response.json() cannot parse
\*   "digits"   status 200, artist.stats.listeners is the string of digits `n`
\*   "text"     status 200, artist.stats.listeners is no number
\*   "missing"  status 200, no artist.stats.listeners
InfoAnswers ==
    { [kind |-> k, n |-> 0] : k \in {"raise", "status", "badjson", "text", "missing"} }
    \cup { [kind |-> "digits", n |-> n] : n \in {5, 9} }

\* lines 44-70, without the cache
get_artist_popularity(key, answer) ==
    IF ~key THEN Returns(0)
    ELSE IF answer.kind \in {"raise", "badjson"} THEN Raises
    ELSE IF answer.kind = "digits" THEN Returns(answer.n)
    ELSE Returns(0)  \* status, ValueError of int(), the "0" default

\* e.get("_popularity", 0)
PopularityKey(e) == IF e.annotated THEN e.popularity ELSE 0

\* Faulty variant of InsertByPopularity: x goes before elements of equal key.
RECURSIVE InsertByPopularity_Unstable(_, _)
InsertByPopularity_Unstable(x, s) ==
    IF s = <<>> THEN <<x>>
    ELSE IF PopularityKey(x) >= PopularityKey(Head(s)) THEN <<x>> \o s
    ELSE <<Head(s)>> \o InsertByPopularity_Unstable(x, Tail(s))

\* list.sort(key=_popularity, reverse=True), line 367: stable, so x, the last
\* element, goes after every element whose key is not smaller
RECURSIVE InsertByPopularity(_, _)
InsertByPopularity(x, s) ==
    IF s = <<>> THEN <<x>>
    ELSE IF PopularityKey(x) > PopularityKey(Head(s)) THEN <<x>> \o s
    ELSE <<Head(s)>> \o InsertByPopularity(x, Tail(s))

RECURSIVE SortByPopularity(_)
SortByPopularity(s) ==
    IF s = <<>> THEN <<>>
    ELSE InsertByPopularity(s[Len(s)], SortByPopularity(SubSeq(s, 1, Len(s) - 1)))

CdTour == NameCd \o SUFFIXES[1]

\* name and attractions of the events to rank: primary artist "Ab" (an
\* attraction), "Cd" (from the name), "" (an attraction without a name)
RankShapes ==
    { [name |-> CdTour, attractions |-> <<Named(NameAb)>>],
      [name |-> CdTour, attractions |-> <<>>],
      [name |-> NameCd, attractions |-> <<Unnamed>>] }

\* the date-time of the i-th event of the list: "1", "1", "2", "2", ...
RankDate(i) == <<(i + 1) \div 2>>

\* a list search_ticketmaster_events can return: distinct identifiers (here
\* the position in the returned list), ascending date-time, no annotation
RankInputs ==
    UNION { { [i \in 1..n |-> [id |-> i, name |-> sh[i].name,
                               attractions |-> sh[i].attractions,
                               dateTime |-> RankDate(i),
                               annotated |-> FALSE, popularity |-> 0]] :
                sh \in [1..n -> RankShapes] } :
            n \in 0..MaxRanked }

\* a cache left by an earlier run within the hour: empty, or a count for "Ab"
CacheStates == {<<>>, [a \in {NameAb} |-> 7]}

InitRank ==
    /\ lastfm_key \in BOOLEAN
    /\ events \in RankInputs
    /\ events0 = events
    /\ sort_by \in {"Popularity", "Date"}
    /\ lastfm = <<>>
    /\ cache \in CacheStates
    /\ cache0 = cache
    /\ ri = 1
    /\ rpc = "start"

\* lines 360, 404-405
NoEvents ==
    /\ rpc = "start"
    /\ events = <<>>
    /\ rpc' = "done"
    /\ UNCHANGED <<lastfm_key, events, events0, sort_by, lastfm, cache, cache0, ri>>
    /\ UNCHANGED notRank

\* lines 368-369
RankByDate ==
    /\ rpc = "start"
    /\ events # <<>>
    /\ sort_by # "Popularity"
    /\ events' = SortByDate(events)
    /\ rpc' = "done"
    /\ UNCHANGED <<lastfm_key, events0, sort_by, lastfm, cache, cache0, ri>>
    /\ UNCHANGED notRank

\* lines 362-364
BeginRanking ==
    /\ rpc = "start"
    /\ events # <<>>
    /\ sort_by = "Popularity"
    /\ rpc' = "annotate"
    /\ UNCHANGED <<lastfm_key, events, events0, sort_by, lastfm, cache, cache0, ri>>
    /\ UNCHANGED notRank

Annotated(e, p) == [e EXCEPT !.annotated = TRUE, !.popularity = p]

\* line 365
PrimaryArtist(e) == extract_artist_from_event(e)

\* line 366, artist_name empty: 0 without a lookup
AnnotateNoArtist ==
    /\ rpc = "annotate"
    /\ ri <= Len(events)
    /\ PrimaryArtist(events[ri]) = <<>>
    /\ events' = [events EXCEPT ![ri] = Annotated(@, 0)]
    /\ ri' = ri + 1
    /\ UNCHANGED <<lastfm_key, events0, sort_by, lastfm, cache, cache0, rpc>>
    /\ UNCHANGED notRank

\* line 366 with line 43: the cache holds the artist's count
AnnotateFromCache ==
    /\ rpc = "annotate"
    /\ ri <= Len(events)
    /\ PrimaryArtist(events[ri]) # <<>>
    /\ PrimaryArtist(events[ri]) \in DOMAIN cache
    /\ events' = [events EXCEPT ![ri] = Annotated(@, cache[PrimaryArtist(events[ri])])]
    /\ ri' = ri + 1
    /\ UNCHANGED <<lastfm_key, events0, sort_by, lastfm, cache, cache0, rpc>>
    /\ UNCHANGED notRank

\* the answer of the API for artist a: the one already given in this run, or
\* `answer` when a is asked for the first time
AnswerFor(a, answer) == IF a \in DOMAIN lastfm THEN lastfm[a] ELSE answer

Put(f, a, v) == [x \in DOMAIN f \cup {a} |-> IF x = a THEN v ELSE f[x]]

\* line 366 with lines 46-49: no credential, 0 is returned (and cached)
\* without a request
AnnotateWithoutKey ==
    /\ rpc = "annotate"
    /\ ri <= Len(events)
    /\ ~lastfm_key
    /\ LET a   == PrimaryArtist(events[ri])
           ret == get_artist_popularity(lastfm_key, [kind |-> "status", n |-> 0])
       IN  /\ a # <<>>
           /\ a \notin DOMAIN cache
           /\ cache' = Put(cache, a, ret.value)
           /\ events' = [events EXCEPT ![ri] = Annotated(@, ret.value)]
    /\ ri' = ri + 1
    /\ UNCHANGED <<lastfm_key, events0, sort_by, lastfm, cache0, rpc>>
    /\ UNCHANGED notRank

\* line 366 with lines 44-70: the count is fetched and cached
AnnotateFromLookup(answer) ==
    /\ rpc = "annotate"
    /\ ri <= Len(events)
    /\ lastfm_key
    /\ LET a   == PrimaryArtist(events[ri])
           ret == get_artist_popularity(lastfm_key, AnswerFor(a, answer))
       IN  /\ a # <<>>
           /\ a \notin DOMAIN cache
           /\ answer = AnswerFor(a, answer)
           /\ ~ret.raised
           /\ lastfm' = Put(lastfm, a, answer)
           /\ cache' = Put(cache, a, ret.value)
           /\ events' = [events EXCEPT ![ri] = Annotated(@, ret.value)]
    /\ ri' = ri + 1
    /\ UNCHANGED <<lastfm_key, events0, sort_by, cache0, rpc>>
    /\ UNCHANGED notRank

\* line 366: the exception raised inside get_artist_popularity is caught
\* nowhere; it ends the script run
PopularityLookupRaises(answer) ==
    /\ rpc = "annotate"
    /\ ri <= Len(events)
    /\ lastfm_key
    /\ LET a   == PrimaryArtist(events[ri])
           ret == get_artist_popularity(lastfm_key, AnswerFor(a, answer))
       IN  /\ a # <<>>
           /\ a \notin DOMAIN cache
           /\ answer = AnswerFor(a, answer)
           /\ ret.raised
           /\ lastfm' = Put(lastfm, a, answer)
    /\ rpc' = "crashed"
    /\ UNCHANGED <<lastfm_key, events, events0, sort_by, cache, cache0, ri>>
    /\ UNCHANGED notRank

\* line 43, ttl=3600: an entry of the cache expires
CacheExpires(a) ==
    /\ rpc = "annotate"
    /\ a \in DOMAIN cache
    /\ cache' = [x \in DOMAIN cache \ {a} |-> cache[x]]
    /\ UNCHANGED <<lastfm_key, events, events0, sort_by, lastfm, cache0, ri, rpc>>
    /\ UNCHANGED notRank

\* line 367
SortRanked ==
    /\ rpc = "annotate"
    /\ ri > Len(events)
    /\ events' = SortByPopularity(events)
    /\ rpc' = "done"
    /\ UNCHANGED <<lastfm_key, events0, sort_by, lastfm, cache, cache0, ri>>
    /\ UNCHANGED notRank

-----------------------------------------------------------------------------
(* Components at rest *)

IdleExpansion ==
    /\ include_similar = FALSE
    /\ artists = <<>>
    /\ all_artists = <<>>
    /\ similar_artist_map = <<>>
    /\ ai = 1
    /\ similar_log = <<>>
    /\ similar_ret = <<>>
    /\ escaped = FALSE
    /\ key_warning = FALSE
    /\ epc = "idle"

IdleExpand == lastfm_key = FALSE /\ IdleExpansion

IdleRank ==
    /\ events = <<>>
    /\ events0 = <<>>
    /\ sort_by = "Date"
    /\ lastfm = <<>>
    /\ cache = <<>>
    /\ cache0 = <<>>
    /\ ri = 1
    /\ rpc = "idle"

IdleExtract ==
    /\ event = <<>>
    /\ extracted = <<>>
    /\ xpc = "idle"

-----------------------------------------------------------------------------
(* Specifications *)

Init == InitSearch /\ IdleExpand /\ IdleRank /\ IdleExtract

Next ==
    \/ NoApiKey
    \/ BeginSearch
    \/ SkipBlankTerm
    \/ RequestOk
    \/ RequestNot200
    \/ RequestFailed
    \/ \E e \in EventUniverse : ProcessEvent(e)
    \/ EndOfEvents
    \/ SortAndReturn

Spec == Init /\ [][Next]_vars

InitOfExpand == IdleSearch /\ InitExpand /\ IdleRank /\ IdleExtract

NextExpand ==
    \/ SkipExpansion
    \/ ExpansionWithoutKey
    \/ BeginExpansion
    \/ \E outcome \in SimilarOutcomes : ExpandSeed(outcome)
    \/ \E outcome \in SimilarOutcomes : SeedLookupRaises(outcome)
    \/ EndExpansion

SpecExpand == InitOfExpand /\ [][NextExpand]_vars

InitOfExtract == IdleSearch /\ IdleExpand /\ IdleRank /\ InitExtract

NextExtract == CallExtract

SpecExtract == InitOfExtract /\ [][NextExtract]_vars

InitOfRank == IdleSearch /\ IdleExpansion /\ InitRank /\ IdleExtract

NextRank ==
    \/ NoEvents
    \/ RankByDate
    \/ BeginRanking
    \/ AnnotateNoArtist
    \/ AnnotateFromCache
    \/ AnnotateWithoutKey
    \/ \E answer \in InfoAnswers : AnnotateFromLookup(answer)
    \/ \E answer \in InfoAnswers : PopularityLookupRaises(answer)
    \/ \E a \in ArtistNames : CacheExpires(a)
    \/ SortRanked

SpecRank == InitOfRank /\ [][NextRank]_vars

-----------------------------------------------------------------------------
(* Properties of search_ticketmaster_events, under Spec *)

Returned == pc = "done" /\ api_key

Ids(s) == {s[i].id : i \in 1..Len(s)}

NoRepeatedId(s) == \A i, j \in 1..Len(s) : i # j => s[i].id # s[j].id

\* index in Delivered of the first occurrence of identifier id among the
\* positions in K
FirstOf(K) == CHOOSE k \in K : \A m \in K : k <= m

Occurrences(id) == {k \in 1..Len(Delivered) : Delivered[k].id = id}

PassingOccurrences(id) ==
    {k \in Occurrences(id) : ~SkippedAsLarge(Delivered[k], exclude_large_venues)}

\* C1 as stated: the returned list holds each identifier at most once, and
\* the record kept for an identifier is the first occurrence of that identifier
\* among all delivered events (term order, then response order).
C1_FirstOccurrenceKept ==
    Returned =>
        /\ NoRepeatedId(result)
        /\ \A i \in 1..Len(result) :
               result[i] = Delivered[FirstOf(Occurrences(result[i].id))]

\* C1 amended: the returned list holds each identifier at most once, and the
\* record kept for an identifier is its first occurrence that the venue filter
\* does not drop (with the flag unset: its first occurrence); an identifier is
\* returned exactly when it has such an occurrence.
C1_FirstPassingOccurrenceKept ==
    Returned =>
        /\ NoRepeatedId(result)
        /\ \A i \in 1..Len(result) :
               /\ PassingOccurrences(result[i].id) # {}
               /\ result[i] = Delivered[FirstOf(PassingOccurrences(result[i].id))]
        /\ \A k \in 1..Len(Delivered) :
               PassingOccurrences(Delivered[k].id) # {} => Delivered[k].id \in Ids(result)
        /\ ~exclude_large_venues =>
               \A i \in 1..Len(result) :
                   result[i] = Delivered[FirstOf(Occurrences(result[i].id))]

\* C1 witness: an identifier delivered by two terms with different records,
\* the first dropped by the venue filter, the second returned.
C1_Witness ==
    /\ Returned
    /\ Len(responses) = 2
    /\ \E i \in 1..Len(result) :
           /\ Cardinality(Occurrences(result[i].id)) >= 2
           /\ result[i] # Delivered[FirstOf(Occurrences(result[i].id))]

\* the capacity of an event as C2 words it: generalInfo.capacity first, else
\* boxOfficeInfo.capacity, of its venue record; NoCap when there is none
ResolvedCapacity(e) ==
    IF e.venues = <<>> THEN NoCap
    ELSE IF e.venues[1].generalInfo.kind # "absent" THEN e.venues[1].generalInfo
    ELSE e.venues[1].boxOfficeInfo

IsNumber(c) == c.kind \in {"int", "digits"}

\* C2: with exclude_large_venues set, no returned event has a resolved
\* capacity above 10000, every delivered event with no capacity value and
\* every delivered event with capacity exactly 10000 has its identifier in the
\* returned list; with the flag unset every delivered identifier is returned.
C2_VenueFilter ==
    Returned =>
        /\ exclude_large_venues =>
               /\ \A i \in 1..Len(result) :
                      ~(IsNumber(ResolvedCapacity(result[i]))
                          /\ ResolvedCapacity(result[i]).val > 10000)
               /\ \A k \in 1..Len(Delivered) :
                      \/ ResolvedCapacity(Delivered[k]) = NoCap
                      \/ /\ IsNumber(ResolvedCapacity(Delivered[k]))
                         /\ ResolvedCapacity(Delivered[k]).val = 10000
                      => Delivered[k].id \in Ids(result)
        /\ ~exclude_large_venues =>
               \A k \in 1..Len(Delivered) : Delivered[k].id \in Ids(result)

\* C2 witness: the flag set; an event above the threshold delivered and not
\* returned, one with capacity exactly 10000 and one without capacity returned.
C2_Witness ==
    /\ Returned
    /\ exclude_large_venues
    /\ \E k \in 1..Len(Delivered) :
           /\ IsNumber(ResolvedCapacity(Delivered[k]))
           /\ ResolvedCapacity(Delivered[k]).val > 10000
           /\ Delivered[k] \notin Range(result)
    /\ \E i \in 1..Len(result) :
           /\ IsNumber(ResolvedCapacity(result[i]))
           /\ ResolvedCapacity(result[i]).val = 10000
    /\ \E i \in 1..Len(result) : ResolvedCapacity(result[i]) = NoCap

\* the indexes of the non-blank terms, in order
RECURSIVE NonBlankFrom(_)
NonBlankFrom(i) ==
    IF i > Len(search_terms) THEN <<>>
    ELSE IF Strip(search_terms[i]) = <<>> THEN NonBlankFrom(i + 1)
    ELSE <<i>> \o NonBlankFrom(i + 1)

Queried == [k \in 1..Len(responses) |-> responses[k].term]

\* every non-blank term was queried once, in order, and every delivered event
\* is returned unless the venue filter drops each occurrence of its identifier
SearchRanToTheEnd ==
    /\ Queried = NonBlankFrom(1)
    /\ \A k \in 1..Len(Delivered) :
           PassingOccurrences(Delivered[k].id) # {} => Delivered[k].id \in Ids(result)

C4_NoKeyNoRequest ==
    ~api_key =>
        /\ responses = <<>>
        /\ pc \in {"start", "done"}
        /\ pc = "done" => errors = <<KeyErrorMessage>> /\ result = <<>>

\* C4 witness: the search returned without a credential, with terms to query.
C4_Witness ==
    /\ ~api_key
    /\ pc = "done"
    /\ NonBlankFrom(1) # <<>>
    /\ errors # <<>>

\* C6: the returned list is ascending in the start date-time string.
C6_SortedByDate ==
    Returned =>
        \A i \in 1..(Len(result) - 1) : StrLeq(DateKey(result[i]), DateKey(result[i + 1]))

\* C6 witness: three events returned, the last one delivered first in the
\* list and the first one delivered last.
C6_Witness ==
    /\ Returned
    /\ Len(result) = 3
    /\ Len(Delivered) = 3
    /\ result[1] = Delivered[3]
    /\ result[3] = Delivered[1]
    /\ DateKey(result[1]) # DateKey(result[3])

-----------------------------------------------------------------------------
(* Properties of the similar-artist expansion, under SpecExpand *)

\* C5 as stated: no exception leaves get_similar_artists_lastfm; a call that
\* met a failure (no connection, a status other than 200, an unparsable body,
\* a missing field) returned the empty sequence, and any other call returned
\* the names in the order the API gave them.
C5_NoExceptionEscapes ==
    /\ ~escaped
    /\ Len(similar_ret) = Len(similar_log)
    /\ \A k \in 1..Len(similar_ret) :
           IF similar_log[k].kind = "list"
              /\ \A i \in 1..Len(similar_log[k].similar) : similar_log[k].similar[i].has_name
           THEN similar_ret[k] =
                    [i \in 1..Len(similar_log[k].similar) |-> similar_log[k].similar[i].name]
           ELSE similar_ret[k] = <<>>

Appended == {j \in 1..Len(all_artists) : j > Len(artists)}

\* the calls whose returned names include one equal to n but for case
IntroducedBy(n) ==
    {k \in 1..Len(similar_ret) : \E i \in 1..Len(similar_ret[k]) :
                                     Lower(similar_ret[k][i]) = Lower(n)}

Count(s, x) == Cardinality({i \in 1..Len(s) : s[i] = x})

RECURSIVE SumOfLengths(_, _)
SumOfLengths(map, keys) ==
    IF keys = {} THEN 0
    ELSE LET k == CHOOSE k \in keys : TRUE
         IN  Len(map[k]) + SumOfLengths(map, keys \ {k})

\* C9: during the expansion the user-entered artists stay the prefix of the
\* working list, no appended name equals an earlier name of the list but for
\* case, and each appended name is recorded once, under the seed of the first
\* lookup that returned it, and under no other seed; nothing else is recorded.
C9_CaseInsensitiveExpansion ==
    /\ Len(all_artists) >= Len(artists)
    /\ SubSeq(all_artists, 1, Len(artists)) = artists
    /\ \A j \in Appended : \A i \in 1..(j - 1) :
           Lower(all_artists[i]) # Lower(all_artists[j])
    /\ \A j \in Appended :
           LET n == all_artists[j]
           IN  /\ IntroducedBy(n) # {}
               /\ \A s \in DOMAIN similar_artist_map :
                      Count(similar_artist_map[s], n) =
                          IF s = artists[FirstOf(IntroducedBy(n))] THEN 1 ELSE 0
               /\ artists[FirstOf(IntroducedBy(n))] \in DOMAIN similar_artist_map
    /\ SumOfLengths(similar_artist_map, DOMAIN similar_artist_map) = Cardinality(Appended)

\* C9 witness: the expansion ended; a lookup returned a name that differs
\* only in case from a listed artist and it was not appended, and another
\* returned name was appended and recorded.
C9_Witness ==
    /\ epc = "done"
    /\ Appended # {}
    /\ DOMAIN similar_artist_map # {}
    /\ \E k \in 1..Len(similar_ret) : \E i \in 1..Len(similar_ret[k]) :
           /\ similar_ret[k][i] \notin Range(all_artists)
           /\ Lower(similar_ret[k][i]) \in {Lower(a) : a \in Range(artists)}

-----------------------------------------------------------------------------
(* Properties of extract_artist_from_event, under SpecExtract *)

FallbackDone == xpc = "done" /\ event.attractions = <<>>

OccursIn(name) == {i \in 1..Len(SUFFIXES) : Contains(name, SUFFIXES[i])}

\* C7: on an event without attractions whose name is an artist name followed
\* by one suffix of the list the result is the artist name alone ("Radiohead
\* World Tour" gives "Radiohead"), and on a name that contains no suffix of
\* the list (and has no whitespace at its ends, which strip() would remove)
\* the result is the name.
C7_SuffixYieldsArtist ==
    FallbackDone =>
        /\ \A a \in BaseNames : \A i \in 1..Len(SUFFIXES) :
               event.name = a \o SUFFIXES[i] => extracted = a
        /\ OccursIn(event.name) = {} /\ Strip(event.name) = event.name =>
               extracted = event.name

\* the name cut at the first occurrence of the first suffix of the list that
\* occurs in it
CutAtFirstMatching(name) ==
    IF OccursIn(name) = {} THEN name
    ELSE SplitFirst(name, SUFFIXES[FirstOf(OccursIn(name))])

\* C10 as stated: only the first suffix of the list that occurs in the name is
\* stripped; the result is the name cut at that suffix's first occurrence and
\* nothing more is stripped from what remains.
C10_OnlyFirstSuffixStripped ==
    FallbackDone => extracted = Strip(CutAtFirstMatching(event.name))

\* the lengths k at which the name is followed by a suffix of the list
CutPoints(name) ==
    {k \in 0..Len(name) : \E i \in 1..Len(SUFFIXES) :
                              /\ k + Len(SUFFIXES[i]) <= Len(name)
                              /\ SubSeq(name, k + 1, k + Len(SUFFIXES[i])) = SUFFIXES[i]}

\* C10 amended: every suffix of the list that occurs in the name as cut so far
\* is stripped, in list order; the result is the name cut where some suffix
\* of the list begins, no later than the first occurrence of the first
\* matching suffix, with surrounding whitespace removed, and it contains no
\* suffix of the list (the name itself when it contains none).
C10_EverySuffixStripped ==
    FallbackDone =>
        /\ OccursIn(extracted) = {}
        /\ \E k \in 0..Len(event.name) :
               /\ extracted = Strip(SubSeq(event.name, 1, k))
               /\ OccursIn(SubSeq(event.name, 1, k)) = {}
               /\ k <= Len(CutAtFirstMatching(event.name))
               /\ IF OccursIn(event.name) = {} THEN k = Len(event.name)
                  ELSE k \in CutPoints(event.name)

\* C10 witness: a name with two suffixes of the list, the later one in the
\* list standing first in the name; both are gone from the result.
C10_Witness ==
    /\ FallbackDone
    /\ Cardinality(OccursIn(event.name)) >= 2
    /\ extracted # Strip(CutAtFirstMatching(event.name))
    /\ extracted \in BaseNames

-----------------------------------------------------------------------------
(* Properties of the ranking step, under SpecRank *)

Ranked == rpc = "done" /\ sort_by = "Popularity" /\ events0 # <<>>

\* the listener count an answer of the API stands for
ListenersOf(answer) == IF answer.kind = "digits" THEN answer.n ELSE 0

\* the counts a lookup of artist a can have returned in this run: the count
\* cached when ranking began, the listener count the API answered, or 0
\* without a credential
PopularityOf(a) ==
    IF a = <<>> THEN {0}
    ELSE {cache0[x] : x \in {a} \cap DOMAIN cache0}
         \cup {ListenersOf(lastfm[x]) : x \in {a} \cap DOMAIN lastfm}
         \cup (IF lastfm_key THEN {} ELSE {0})

\* C8: after ranking by popularity the list holds the same events, each
\* annotated with the popularity of its primary artist (0 when the artist name
\* is empty), in order of non-increasing popularity, and events of equal
\* popularity are in the order the search returned them.
C8_StablePopularityOrder ==
    Ranked =>
        /\ Len(events) = Len(events0)
        /\ \A i \in 1..Len(events) :
               /\ events[i].annotated
               /\ events[i] = Annotated(events0[events[i].id], events[i].popularity)
               /\ events[i].popularity \in
                      PopularityOf(extract_artist_from_event(events0[events[i].id]))
        /\ NoRepeatedId(events)
        /\ \A i \in 1..(Len(events) - 1) :
               events[i].popularity >= events[i + 1].popularity
        /\ \A i, j \in 1..Len(events) :
               i < j /\ events[i].popularity = events[j].popularity =>
                   events[i].id < events[j].id

\* C8 witness: three events ranked; the one the search returned last is
\* first, with the highest popularity, and the other two are tied above zero.
C8_Witness ==
    /\ Ranked
    /\ Len(events) = 3
    /\ events[1].id = 3
    /\ events[1].popularity > events[2].popularity
    /\ events[2].popularity = events[3].popularity
    /\ events[3].popularity > 0

====
